---- MODULE Spec2Model ----
(***************************************************************************)
(* The trip ledger of TripSplitr: the tables trips, trip_members and       *)
(* expenses with their constraints, row-level-security policies and        *)
(* cascades (the SQL migration), the two mutating handlers of the client   *)
(* (CreateTrip.handleSubmit, TripDetail.handleAddExpense) and the balance  *)
(* computation of the TripDetail page.                                     *)
(*                                                                         *)
(* Text is a tuple of one-character strings, so that trim() and            *)
(* parseFloat() are computed.  Money is an integer: thousandths where the  *)
(* client holds the parsed form value, cents where the DECIMAL(10,2)       *)
(* column holds it.  The amounts used stay far below the range of          *)
(* DECIMAL(10,2), so its overflow error is not modelled.                   *)
(***************************************************************************)
EXTENDS Integers, Sequences, FiniteSets, TLC

VARIABLES
    trips,          \* rows of public.trips
    trip_members,   \* rows of public.trip_members
    expenses,       \* rows of public.expenses
    tripSeq,        \* number of trip ids handed out by gen_random_uuid()
    expenseSeq,     \* number of expense ids handed out
    run,            \* per user: the handleSubmit run between its two awaits
    call,           \* the handler call or storage request of the last step
    args,           \* the trip, members and expenses calculateBalances reads
    rendered,       \* what one render of them computes
    page,           \* one TripDetail page: its state and its fetchTripData runs
    clock,          \* the time now() returns
    updated_at      \* the updated_at column of the rows of trips and expenses

ledger == <<trips, trip_members, expenses>>
balance_vars == <<args, rendered>>
page_vars == <<page>>
stamp_vars == <<clock, updated_at>>
vars == <<trips, trip_members, expenses, tripSeq, expenseSeq, run, call,
          args, rendered, page, clock, updated_at>>

(* ------------------------------ bounds --------------------------------- *)
MaxTrips == 2
MaxNames == 2
MaxExpenses == 1

Users == {"u1", "u2"}

RECURSIVE SeqsUpTo(_, _)
SeqsUpTo(S, n) ==
    IF n = 0 THEN {<<>>}
    ELSE LET shorter == SeqsUpTo(S, n - 1)
         IN  shorter \cup {Append(s, x) : s \in shorter, x \in S}

\* form values of the CreateTrip page; memberNames never gets shorter than
\* one entry (updateMemberCount)
CreateTitleInputs == {<<>>, <<" ">>, <<"a">>, <<" ", "a">>, <<"b">>}
CreateNameInputs == {<<>>, <<" ", " ">>, <<"x", " ">>}
CreateMemberNamesInputs == SeqsUpTo(CreateNameInputs, MaxNames) \ {<<>>}

\* the fewer form values used where expenses are added as well
TitleInputs == {<<>>, <<"a">>}
NameInputs == {<<>>, <<" ", "x">>}
MemberNamesInputs == SeqsUpTo(NameInputs, MaxNames) \ {<<>>}
ExpenseTitleInputs == {<<" ">>, <<"h">>}
AmountInputs ==
    { <<>>, <<"a">>, <<"0">>, <<"-", "1">>, <<"1">>,
      <<"0", ".", "0", "0", "4">> }

TripIds == 1 .. MaxTrips
MemberIdOf(trip_id, i) == (trip_id - 1) * MaxNames + i
MemberIds == 1 .. (MaxTrips * MaxNames)

(* ------------------------------- text ---------------------------------- *)
RECURSIVE TrimStart(_)
TrimStart(s) ==
    IF s = <<>> THEN <<>>
    ELSE IF Head(s) = " " THEN TrimStart(Tail(s)) ELSE s

RECURSIVE TrimEnd(_)
TrimEnd(s) ==
    IF s = <<>> THEN <<>>
    ELSE IF s[Len(s)] = " " THEN TrimEnd(SubSeq(s, 1, Len(s) - 1)) ELSE s

\* String.prototype.trim
Trim(s) == TrimEnd(TrimStart(s))

Digits == <<"0", "1", "2", "3", "4", "5", "6", "7", "8", "9">>
IsDigit(c) == \E d \in 1 .. Len(Digits) : Digits[d] = c
DigitVal(c) == (CHOOSE d \in 1 .. Len(Digits) : Digits[d] = c) - 1

RECURSIVE DigitRun(_)
\* the longest prefix of s made of digits
DigitRun(s) ==
    IF s = <<>> \/ ~IsDigit(Head(s)) THEN <<>>
    ELSE <<Head(s)>> \o DigitRun(Tail(s))

RECURSIVE DigitsValue(_)
DigitsValue(ds) ==
    IF ds = <<>> THEN 0
    ELSE DigitsValue(SubSeq(ds, 1, Len(ds) - 1)) * 10 + DigitVal(ds[Len(ds)])

\* the first three fraction digits as thousandths
FractionMilli(ds) ==
    DigitsValue(SubSeq(ds \o <<"0", "0", "0">>, 1, 3))

\* parseFloat: leading blanks, a sign, digits, a point, digits; what follows
\* is ignored; NaN when no digit is found.  The value is in thousandths
\* (the form values used have at most three fraction digits and no exponent).
NaN == [nan |-> TRUE, milli |-> 0]
Number(milli) == [nan |-> FALSE, milli |-> milli]
isNaN(x) == x.nan
parseFloat(str) ==
    LET s    == TrimStart(str)
        neg  == s # <<>> /\ Head(s) = "-"
        sgn  == s # <<>> /\ Head(s) \in {"-", "+"}
        body == IF sgn THEN Tail(s) ELSE s
        int  == DigitRun(body)
        rest == SubSeq(body, Len(int) + 1, Len(body))
        frac == IF rest # <<>> /\ Head(rest) = "." THEN DigitRun(Tail(rest))
                ELSE <<>>
        mag  == DigitsValue(int) * 1000 + FractionMilli(frac)
    IN  IF int = <<>> /\ frac = <<>> THEN NaN
        ELSE IF neg THEN Number(0 - mag) ELSE Number(mag)

(* ---------------------------- storage layer ---------------------------- *)
\* the EXISTS sub-select of the trip_members and expenses policies
OwnsTrip(uid, trip_id) ==
    \E t \in trips : t.id = trip_id /\ t.user_id = uid

\* the table without its UNIQUE(user_id, title)
TripInsertError_NoUnique(uid, row) ==
    IF row.user_id # uid THEN "rls" ELSE "none"

\* INSERT INTO trips: WITH CHECK (auth.uid() = user_id), UNIQUE(user_id, title)
TripInsertError(uid, row) ==
    IF row.user_id # uid THEN "rls"
    ELSE IF \E t \in trips : t.user_id = row.user_id /\ t.title = row.title
         THEN "unique"
    ELSE "none"

\* INSERT INTO trip_members (one statement, all rows or none)
MembersInsertError(uid, rows) ==
    IF \E r \in rows : ~OwnsTrip(uid, r.trip_id) THEN "rls" ELSE "none"

\* a value assigned to a DECIMAL(10,2) column is rounded to two fraction
\* digits, halves away from zero; the result is in cents
ToDecimal2(milli) ==
    IF milli >= 0 THEN (milli + 5) \div 10 ELSE 0 - ((5 - milli) \div 10)

\* INSERT INTO expenses: the policy's WITH CHECK and the two foreign keys
ExpenseInsertError(uid, row) ==
    IF ~OwnsTrip(uid, row.trip_id) THEN "rls"
    ELSE IF ~\E m \in trip_members : m.id = row.paid_by_member_id THEN "fk"
    ELSE "none"

\* SELECT under the view policies; PayerEmbed is the embedded
\* paid_by_member:trip_members(id, name) of an expense row
PayerEmbed(uid, e) ==
    {m \in trip_members : m.id = e.paid_by_member_id /\ OwnsTrip(uid, m.trip_id)}
SelectTrips(uid) == {t \in trips : t.user_id = uid}
SelectMembers(uid, trip_id) ==
    {m \in trip_members : m.trip_id = trip_id /\ OwnsTrip(uid, m.trip_id)}
SelectExpenses(uid, trip_id) ==
    {e \in expenses : e.trip_id = trip_id /\ OwnsTrip(uid, e.trip_id)}

\* DELETE FROM trips WHERE id = trip_id, under the delete policy, with the
\* ON DELETE CASCADE of trip_members.trip_id, expenses.trip_id and
\* expenses.paid_by_member_id
DeletedTrips(uid, trip_id) == {t \in trips : t.id = trip_id /\ t.user_id = uid}
\* trip_members.trip_id without its ON DELETE CASCADE
CascadedMembers_None(gone) == {}
CascadedMembers(gone) ==
    {m \in trip_members : \E t \in gone : m.trip_id = t.id}
CascadedExpenses(gone) ==
    {e \in expenses :
        \/ \E t \in gone : e.trip_id = t.id
        \/ \E m \in CascadedMembers(gone) : e.paid_by_member_id = m.id}

(* ------------------------ CreateTrip.handleSubmit ---------------------- *)
\* the filter tests the name, not its trimmed form
IsBlank_NoTrim(name) == name = <<>>
\* !name.trim()
IsBlank(name) == Trim(name) = <<>>
\* no filter: every form entry becomes a member
validMembers_Unfiltered(memberNames) == memberNames
\* memberNames.filter(name => name.trim())
validMembers(memberNames) == SelectSeq(memberNames, LAMBDA name : ~IsBlank(name))

\* validMembers.map(name => ({trip_id: tripData.id, name: name.trim()}))
membersToInsert(trip_id, valid) ==
    { [id |-> MemberIdOf(trip_id, i), trip_id |-> trip_id,
       name |-> Trim(valid[i])] : i \in 1 .. Len(valid) }

tripToInsert(u, title, memberNames) ==
    [id |-> tripSeq + 1, user_id |-> u, title |-> Trim(title),
     member_count |-> Len(validMembers(memberNames))]

Idle == [pc |-> "idle"]

\* handleSubmit up to its first await's answer: validation, then the trips
\* insert.  The submit button is disabled while loading, so a user has one
\* run at a time.
handleSubmit(u, title, memberNames) ==
    /\ run[u].pc = "idle"
    /\ IF Trim(title) = <<>> THEN
          /\ call' = [op |-> "handleSubmit", user |-> u, title |-> title,
                      memberNames |-> memberNames,
                      toast |-> "Trip Title Required", message |-> ""]
          /\ UNCHANGED <<trips, trip_members, expenses, tripSeq, expenseSeq, run,
                       balance_vars>>
       ELSE IF Len(validMembers(memberNames)) = 0 THEN
          /\ call' = [op |-> "handleSubmit", user |-> u, title |-> title,
                      memberNames |-> memberNames,
                      toast |-> "Members Required", message |-> ""]
          /\ UNCHANGED <<trips, trip_members, expenses, tripSeq, expenseSeq, run,
                       balance_vars>>
       ELSE LET row == tripToInsert(u, title, memberNames)
                err == TripInsertError(u, row)
            IN  IF err # "none" THEN
                   /\ call' = [op |-> "handleSubmit", user |-> u, title |-> title,
                               memberNames |-> memberNames,
                               toast |-> "Error Creating Trip", message |-> err]
                   /\ UNCHANGED <<trips, trip_members, expenses, tripSeq,
                                  expenseSeq, run, balance_vars>>
                ELSE
                   /\ tripSeq < MaxTrips
                   /\ trips' = trips \cup {row}
                   /\ tripSeq' = tripSeq + 1
                   /\ run' = [run EXCEPT ![u] =
                                [pc |-> "members", tripData |-> row.id,
                                 memberNames |-> memberNames]]
                   /\ call' = [op |-> "handleSubmit", user |-> u, title |-> title,
                               memberNames |-> memberNames,
                               toast |-> "", message |-> ""]
                   /\ UNCHANGED <<trip_members, expenses, expenseSeq, balance_vars>>

\* handleSubmit with a valid form whose trips insert does not reach the
\* store: tripError is thrown
handleSubmitTripRequestFails(u) ==
    /\ run[u].pc = "idle"
    /\ call' = [op |-> "handleSubmitTripRequestFails", user |-> u,
                toast |-> "Error Creating Trip", message |-> "request failed"]
    /\ UNCHANGED <<trips, trip_members, expenses, tripSeq, expenseSeq, run,
                   balance_vars>>

\* handleSubmit from the answer of the trips insert on: the trip_members insert
handleSubmitMembers(u) ==
    /\ run[u].pc = "members"
    /\ LET rows == membersToInsert(run[u].tripData,
                                   validMembers(run[u].memberNames))
           err  == MembersInsertError(u, rows)
           here == [op |-> "handleSubmitMembers", user |-> u,
                    trip_id |-> run[u].tripData,
                    memberNames |-> run[u].memberNames]
       IN  /\ IF err # "none" THEN
                 /\ call' = here @@ [toast |-> "Error Creating Trip",
                                     message |-> err]
                 /\ UNCHANGED trip_members
              ELSE
                 /\ trip_members' = trip_members \cup rows
                 /\ call' = here @@ [toast |-> "Trip Created!", message |-> ""]
           /\ run' = [run EXCEPT ![u] = Idle]
           /\ UNCHANGED <<trips, expenses, tripSeq, expenseSeq, balance_vars>>

\* the trip_members insert does not reach the store: membersError is thrown
handleSubmitMembersRequestFails(u) ==
    /\ run[u].pc = "members"
    /\ call' = [op |-> "handleSubmitMembers", user |-> u,
                trip_id |-> run[u].tripData,
                memberNames |-> run[u].memberNames,
                toast |-> "Error Creating Trip", message |-> "request failed"]
    /\ run' = [run EXCEPT ![u] = Idle]
    /\ UNCHANGED <<trips, trip_members, expenses, tripSeq, expenseSeq,
                   balance_vars>>

(* ----------------------- TripDetail.handleAddExpense ------------------- *)
\* The handler reads tripId from the route and the three form values from
\* the page; it checks nothing about them beyond what is written here.
\* selectedMemberId 0 is the empty string of the unset select.  The refresh
\* it starts after a successful insert (fetchTripData) only re-reads; it
\* writes no row.
\* the id is not a fresh one
expenseToInsert_FixedId(tripId, expenseTitle, amount, selectedMemberId) ==
    [id |-> 1, trip_id |-> tripId, title |-> Trim(expenseTitle),
     amount |-> ToDecimal2(amount), paid_by_member_id |-> selectedMemberId]

expenseToInsert(tripId, expenseTitle, amount, selectedMemberId) ==
    [id |-> expenseSeq + 1, trip_id |-> tripId, title |-> Trim(expenseTitle),
     amount |-> ToDecimal2(amount), paid_by_member_id |-> selectedMemberId]

handleAddExpense(u, tripId, expenseTitle, expenseAmount, selectedMemberId) ==
    LET here == [op |-> "handleAddExpense", user |-> u]
        amount == parseFloat(expenseAmount)
    IN
    IF Trim(expenseTitle) = <<>> \/ expenseAmount = <<>> \/ selectedMemberId = 0 THEN
       /\ call' = here @@ [toast |-> "Missing Information", message |-> ""]
       /\ UNCHANGED <<trips, trip_members, expenses, tripSeq, expenseSeq, run,
                       balance_vars>>
    ELSE IF isNaN(amount) \/ amount.milli <= 0 THEN
       /\ call' = here @@ [toast |-> "Invalid Amount", message |-> ""]
       /\ UNCHANGED <<trips, trip_members, expenses, tripSeq, expenseSeq, run,
                       balance_vars>>
    ELSE LET row == expenseToInsert(tripId, expenseTitle, amount.milli,
                                    selectedMemberId)
             err == ExpenseInsertError(u, row)
         IN  IF err # "none" THEN
                /\ call' = here @@ [toast |-> "Error Adding Expense", message |-> err]
                /\ UNCHANGED <<trips, trip_members, expenses, tripSeq,
                               expenseSeq, run, balance_vars>>
             ELSE
                /\ expenses' = expenses \cup {row}
                /\ expenseSeq' = expenseSeq + 1
                /\ call' = here @@ [toast |-> "Expense Added", message |-> ""]
                /\ UNCHANGED <<trips, trip_members, tripSeq, run, balance_vars>>

(* ------------------------------ deletion ------------------------------- *)
\* a DELETE request on trips by user u (no page issues one; the delete
\* policy admits it)
DeleteTrip(u, trip_id) ==
    LET gone == DeletedTrips(u, trip_id)
    IN  /\ \E t \in trips : t.id = trip_id
        /\ trips' = trips \ gone
        /\ trip_members' = trip_members \ CascadedMembers(gone)
        /\ expenses' = expenses \ CascadedExpenses(gone)
        /\ call' = [op |-> "DeleteTrip", user |-> u, trip_id |-> trip_id]
        /\ UNCHANGED <<tripSeq, expenseSeq, run, balance_vars>>

(* ----------------------- updates and timestamps ----------------------- *)
\* The rows of trips and expenses carry updated_at (DEFAULT now()); the
\* variable updated_at holds that column, indexed by table and row id.  One
\* request is one transaction, so now() is the clock at the request's step.
MaxClock == 1

TripKey(id) == <<"trips", id>>
ExpenseKey(id) == <<"expenses", id>>
RowKeys(tripRows, expenseRows) ==
    {TripKey(t.id) : t \in tripRows} \cup {ExpenseKey(e.id) : e \in expenseRows}

\* the column after a step that may have inserted or removed rows: an
\* inserted row gets its DEFAULT now(), the other rows keep their value
InsertDefaults ==
    updated_at' = [k \in RowKeys(trips', expenses') |->
                      IF k \in DOMAIN updated_at THEN updated_at[k] ELSE clock]

\* the SET list of an UPDATE applied to a row
ApplySet(row, set) ==
    [c \in DOMAIN row |-> IF c \in DOMAIN set THEN set[c] ELSE row[c]]
WithoutUpdatedAt(row) == [c \in DOMAIN row \ {"updated_at"} |-> row[c]]

\* the tables without their BEFORE UPDATE trigger
update_updated_at_column_NoTrigger(new) == new
\* public.update_updated_at_column(): NEW.updated_at = now(); RETURN NEW
update_updated_at_column(new) == [new EXCEPT !.updated_at = clock]

\* UPDATE trips SET set WHERE id = id, requested by u: the update policy's
\* USING, the SET list, the BEFORE UPDATE trigger, then UNIQUE(user_id, title)
UpdateTrips(u, id, set) ==
    LET rows == {t \in trips : t.id = id /\ t.user_id = u}
        NewRow(t) ==
            update_updated_at_column(
                ApplySet(t @@ [updated_at |-> updated_at[TripKey(t.id)]], set))
        news == {NewRow(t) : t \in rows}
        err  == IF \E n \in news, t \in trips \ rows :
                      t.user_id = n.user_id /\ t.title = n.title
                THEN "unique" ELSE "none"
    IN  /\ \E t \in trips : t.id = id
        /\ call' = [op |-> "UpdateTrips", user |-> u, id |-> id, set |-> set,
                    toast |-> "", message |-> err]
        /\ IF err # "none" THEN UNCHANGED <<trips, updated_at>>
           ELSE /\ trips' = (trips \ rows) \cup {WithoutUpdatedAt(n) : n \in news}
                /\ updated_at' =
                      [k \in DOMAIN updated_at |->
                          IF \E n \in news : k = TripKey(n.id)
                          THEN (CHOOSE n \in news : k = TripKey(n.id)).updated_at
                          ELSE updated_at[k]]
        /\ UNCHANGED <<trip_members, expenses, tripSeq, expenseSeq, run, clock,
                       balance_vars>>

\* UPDATE expenses SET set WHERE id = id, requested by u; the amount goes
\* through the DECIMAL(10,2) column
UpdateExpenses(u, id, set) ==
    LET rows == {e \in expenses : e.id = id /\ OwnsTrip(u, e.trip_id)}
        Typed(n) == [n EXCEPT !.amount = IF "amount" \in DOMAIN set
                                         THEN ToDecimal2(n.amount) ELSE n.amount]
        NewRow(e) ==
            update_updated_at_column(
                Typed(ApplySet(e @@ [updated_at |-> updated_at[ExpenseKey(e.id)]],
                               set)))
        news == {NewRow(e) : e \in rows}
    IN  /\ \E e \in expenses : e.id = id
        /\ call' = [op |-> "UpdateExpenses", user |-> u, id |-> id, set |-> set,
                    toast |-> "", message |-> "none"]
        /\ expenses' = (expenses \ rows) \cup {WithoutUpdatedAt(n) : n \in news}
        /\ updated_at' =
              [k \in DOMAIN updated_at |->
                  IF \E n \in news : k = ExpenseKey(n.id)
                  THEN (CHOOSE n \in news : k = ExpenseKey(n.id)).updated_at
                  ELSE updated_at[k]]
        /\ UNCHANGED <<trips, trip_members, tripSeq, expenseSeq, run, clock,
                       balance_vars>>

NoCall == [op |-> "none", user |-> "none", toast |-> "", message |-> ""]

\* time passes; no request is made
Tick ==
    /\ clock < MaxClock
    /\ clock' = clock + 1
    /\ call' = NoCall
    /\ UNCHANGED <<trips, trip_members, expenses, tripSeq, expenseSeq, run,
                   balance_vars, updated_at>>

\* the SET lists requested
TripSets ==
    { [member_count |-> 0], [title |-> <<"b">>, updated_at |-> 0] }
ExpenseSets ==
    { [title |-> <<"h">>], [amount |-> 2004, updated_at |-> 0] }
StampTitleInputs == {<<"a">>}
StampMemberNamesInputs == {<< <<"x">> >>}

(* ------------------------ JavaScript numbers ---------------------------- *)
\* Amounts are whole cents and quotients are exact fractions of cents; the
\* binary rounding of double arithmetic is not modelled.  A division by zero
\* gives Infinity, -Infinity or NaN as in JavaScript.
RECURSIVE GCD(_, _)
GCD(a, b) == IF b = 0 THEN a ELSE GCD(b, a % b)
Abs(x) == IF x < 0 THEN 0 - x ELSE x

Ratio(n, d) ==
    LET g == GCD(Abs(n), Abs(d))
        s == IF d < 0 THEN 0 - 1 ELSE 1
    IN  [kind |-> "finite", n |-> (s * n) \div g, d |-> (s * d) \div g]
Num(n) == [kind |-> "finite", n |-> n, d |-> 1]
Infinity == [kind |-> "Infinity", n |-> 1, d |-> 0]
NegInfinity == [kind |-> "-Infinity", n |-> 0 - 1, d |-> 0]
NotANumber == [kind |-> "NaN", n |-> 0, d |-> 0]

JsNeg(x) ==
    CASE x.kind = "finite" -> Ratio(0 - x.n, x.d)
      [] x.kind = "Infinity" -> NegInfinity
      [] x.kind = "-Infinity" -> Infinity
      [] OTHER -> NotANumber

JsAdd(x, y) ==
    CASE x.kind = "NaN" \/ y.kind = "NaN" -> NotANumber
      [] x.kind = "finite" /\ y.kind = "finite" ->
            Ratio(x.n * y.d + y.n * x.d, x.d * y.d)
      [] x.kind = "finite" -> y
      [] y.kind = "finite" -> x
      [] x.kind = y.kind -> x
      [] OTHER -> NotANumber

JsSub(x, y) == JsAdd(x, JsNeg(y))

\* x / y
JsDiv(x, y) ==
    IF x.kind = "NaN" \/ y.kind = "NaN" THEN NotANumber
    ELSE IF x.kind # "finite" /\ y.kind # "finite" THEN NotANumber
    ELSE IF y.kind # "finite" THEN Num(0)
    ELSE IF x.kind # "finite" THEN (IF y.n < 0 THEN JsNeg(x) ELSE x)
    ELSE IF y.n # 0 THEN Ratio(x.n * y.d, x.d * y.n)
    ELSE IF x.n = 0 THEN NotANumber
    ELSE IF x.n > 0 THEN Infinity
    ELSE NegInfinity

(* --------------------- TripDetail.calculateBalances -------------------- *)
RECURSIVE SumAmounts_NoInitialValue(_)
\* reduce without its initial value 0: no number comes out of an empty list
SumAmounts_NoInitialValue(list) ==
    IF list = <<>> THEN NotANumber
    ELSE IF Len(list) = 1 THEN Num(list[1].amount)
    ELSE JsAdd(SumAmounts_NoInitialValue(SubSeq(list, 1, Len(list) - 1)),
               Num(list[Len(list)].amount))

RECURSIVE SumAmounts(_)
\* expenses.reduce((sum, expense) => sum + expense.amount, 0)
SumAmounts(list) ==
    IF list = <<>> THEN Num(0)
    ELSE JsAdd(SumAmounts(SubSeq(list, 1, Len(list) - 1)),
               Num(list[Len(list)].amount))

\* the filter on the payer left out
PaidBy_Unfiltered(list, member_id) == list

\* expenses.filter(expense => expense.paid_by_member_id === member.id)
PaidBy(list, member_id) ==
    SelectSeq(list, LAMBDA expense : expense.paid_by_member_id = member_id)

calculateBalances(trip, members, list) ==
    LET totalExpense == SumAmounts(list)
        perHeadExpense == IF ~trip.null
                          THEN JsDiv(totalExpense, Num(trip.member_count))
                          ELSE Num(0)
    IN  [i \in 1 .. Len(members) |->
            LET totalPaid == SumAmounts(PaidBy(list, members[i].id))
            IN  [member |-> members[i], totalPaid |-> totalPaid,
                 shouldPay |-> perHeadExpense,
                 balance |-> JsSub(totalPaid, perHeadExpense)]]

\* the "Per Person" value of the trip summary
summaryPerHeadExpense(trip, list) ==
    IF trip.member_count > 0
    THEN JsDiv(SumAmounts(list), Num(trip.member_count))
    ELSE Num(0)

\* the per_head_expense of a trip on the dashboard (fetchTrips)
dashboardPerHeadExpense(trip, list) ==
    LET totalExpense == SumAmounts(list)
    IN  IF trip.member_count > 0
        THEN JsDiv(totalExpense, Num(trip.member_count))
        ELSE Num(0)

(* inputs of the balance computation *)
MaxBalCount == 3
MaxBalMembers == 2
MaxBalExpenses == 2

BalNames == <<"Alice", "Bob">>
BalAmounts == {1, 4000, 10000}
NameRank(name) == CHOOSE r \in 1 .. Len(BalNames) : BalNames[r] = name

\* members as the read path lists them: distinct ids, ordered by name
BalMemberLists ==
    { m \in SeqsUpTo([id : 1 .. MaxBalMembers,
                      name : {BalNames[r] : r \in 1 .. Len(BalNames)}],
                     MaxBalMembers) :
        /\ \A i, j \in 1 .. Len(m) : i # j => m[i].id # m[j].id
        /\ \A i, j \in 1 .. Len(m) :
              i < j => NameRank(m[i].name) <= NameRank(m[j].name) }

BalExpenseLists ==
    SeqsUpTo([amount : BalAmounts, paid_by_member_id : 1 .. MaxBalMembers],
             MaxBalExpenses)

BalTrips == [null : {FALSE}, member_count : 0 .. MaxBalCount]

NoArgs == [trip |-> [null |-> TRUE, member_count |-> 0],
           members |-> <<>>, expenses |-> <<>>]
NotRendered == [done |-> FALSE, balances |-> <<>>,
                perHeadExpense |-> Num(0), per_head_expense |-> Num(0)]

\* one render of the TripDetail page and of the trip's dashboard card
Render ==
    /\ ~rendered.done
    /\ rendered' =
          [done |-> TRUE,
           balances |-> calculateBalances(args.trip, args.members, args.expenses),
           perHeadExpense |-> summaryPerHeadExpense(args.trip, args.expenses),
           per_head_expense |-> dashboardPerHeadExpense(args.trip, args.expenses)]
    /\ UNCHANGED <<trips, trip_members, expenses, tripSeq, expenseSeq, run,
                   call, args, page_vars, stamp_vars>>

(* --------------------------- the TripDetail page ----------------------- *)
\* One TripDetail component: its route (user, tripId), its state (trip,
\* members, expenses, loading), the toast it showed last, and its
\* fetchTripData runs in the order they were started.  A run is at one of its
\* three requests ("trip", "members", "expenses": sent, not yet served by
\* the store), at one of their answers (served, not yet received by the
\* page) or "done".  outside tells that a request of another session wrote
\* to the ledger since the page was opened.
MaxPageExpenses == 2

NoPage == [phase |-> "unopened"]
NullTrip == [null |-> TRUE, member_count |-> 0]
NoAnswer == [error |-> "none", data |-> <<>>]
Done == [pc |-> "done", answer |-> NoAnswer]

\* the order of text under ORDER BY
Alphabet == <<" ", "a", "b", "h", "x", "y">>
CharRank(c) == CHOOSE r \in 1 .. Len(Alphabet) : Alphabet[r] = c
RECURSIVE TextLess(_, _)
TextLess(s, t) ==
    IF t = <<>> THEN FALSE
    ELSE IF s = <<>> THEN TRUE
    ELSE IF Head(s) = Head(t) THEN TextLess(Tail(s), Tail(t))
    ELSE CharRank(Head(s)) < CharRank(Head(t))

\* .order('name'); rows of equal name are taken in the order of their ids
ByName(a, b) == TextLess(a.name, b.name) \/ (a.name = b.name /\ a.id < b.id)
\* .order('created_at', { ascending: false }): the later insert first
ByCreatedAtDescending(a, b) == a.id > b.id

\* the rows of S as the list ORDER BY name gives
OrderByName(S) ==
    CHOOSE q \in [1 .. Cardinality(S) -> S] :
        /\ \A x \in S : \E i \in 1 .. Cardinality(S) : q[i] = x
        /\ \A i, j \in 1 .. Cardinality(S) : i < j => ByName(q[i], q[j])

\* the rows of S as the list ORDER BY created_at DESC gives
OrderByCreatedAtDescending(S) ==
    CHOOSE q \in [1 .. Cardinality(S) -> S] :
        /\ \A x \in S : \E i \in 1 .. Cardinality(S) : q[i] = x
        /\ \A i, j \in 1 .. Cardinality(S) : i < j => ByCreatedAtDescending(q[i], q[j])

\* the trips select without its policy and without .eq('user_id', user.id)
TripAnswer_AnyOwner(u, tripId) ==
    LET rows == {t \in trips : t.id = tripId}
    IN  IF Cardinality(rows) = 1
        THEN [error |-> "none", data |-> CHOOSE t \in rows : TRUE]
        ELSE [error |-> "PGRST116", data |-> <<>>]

\* .from('trips').select('*').eq('id', tripId).eq('user_id', user.id).single()
TripAnswer(u, tripId) ==
    LET rows == {t \in SelectTrips(u) : t.id = tripId /\ t.user_id = u}
    IN  IF Cardinality(rows) = 1
        THEN [error |-> "none", data |-> CHOOSE t \in rows : TRUE]
        ELSE [error |-> "PGRST116", data |-> <<>>]

\* .from('trip_members').select('*').eq('trip_id', tripId).order('name')
MembersAnswer(u, tripId) ==
    [error |-> "none", data |-> OrderByName(SelectMembers(u, tripId))]

\* the payer embedded as an inner join (trip_members!inner): an expense
\* whose payer the requester may not read is left out
ExpensesAnswer_InnerJoin(u, tripId) ==
    LET Embedded(e) ==
            e @@ [paid_by_member |->
                     {[id |-> m.id, name |-> m.name] : m \in PayerEmbed(u, e)}]
    IN  [error |-> "none",
         data |-> OrderByCreatedAtDescending({Embedded(e) : e \in {x \in SelectExpenses(u, tripId) :
                                                    PayerEmbed(u, x) # {}}})]

\* .from('expenses').select('*, paid_by_member:trip_members(id, name)')
\*   .eq('trip_id', tripId).order('created_at', { ascending: false })
ExpensesAnswer(u, tripId) ==
    LET Embedded(e) ==
            e @@ [paid_by_member |->
                     {[id |-> m.id, name |-> m.name] : m \in PayerEmbed(u, e)}]
    IN  [error |-> "none",
         data |-> OrderByCreatedAtDescending({Embedded(e) : e \in SelectExpenses(u, tripId)})]

\* fetchTripData up to its first await: the trips request is sent
fetchTripData(p) ==
    [p EXCEPT !.runs = Append(p.runs, [pc |-> "trip", answer |-> NoAnswer])]

\* the catch and finally blocks: the toast, navigate('/dashboard') unmounts
\* the page, and what its other runs receive later changes nothing shown
Caught(p, answer) ==
    [p EXCEPT !.phase = "closed", !.toast = "Error", !.message = answer.error,
              !.loading = FALSE, !.runs = <<>>]

\* the page is mounted: useEffect calls fetchTripData
OpenPage(u, tripId) ==
    /\ page.phase = "unopened"
    /\ page' = fetchTripData(
                   [phase |-> "open", user |-> u, tripId |-> tripId,
                    trip |-> NullTrip, members |-> <<>>, expenses |-> <<>>,
                    loading |-> TRUE, toast |-> "", message |-> "",
                    runs |-> <<>>, outside |-> FALSE])
    /\ UNCHANGED <<trips, trip_members, expenses, tripSeq, expenseSeq, run,
                   call, balance_vars, stamp_vars>>

\* the store serves the request run k waits for
Serve(k) ==
    /\ page.phase = "open"
    /\ k \in 1 .. Len(page.runs)
    /\ page.runs[k].pc \in {"trip", "members", "expenses"}
    /\ LET pc == page.runs[k].pc
           answer == CASE pc = "trip" -> TripAnswer(page.user, page.tripId)
                       [] pc = "members" -> MembersAnswer(page.user, page.tripId)
                       [] pc = "expenses" -> ExpensesAnswer(page.user, page.tripId)
       IN  page' = [page EXCEPT !.runs[k] = [pc |-> pc \o "Answer",
                                              answer |-> answer]]
    /\ UNCHANGED <<trips, trip_members, expenses, tripSeq, expenseSeq, run,
                   call, balance_vars, stamp_vars>>

\* the request run k waits for does not reach the store
RequestFails(k) ==
    /\ page.phase = "open"
    /\ k \in 1 .. Len(page.runs)
    /\ page.runs[k].pc \in {"trip", "members", "expenses"}
    /\ page' = [page EXCEPT !.runs[k] =
                    [pc |-> page.runs[k].pc \o "Answer",
                     answer |-> [error |-> "request failed", data |-> <<>>]]]
    /\ UNCHANGED <<trips, trip_members, expenses, tripSeq, expenseSeq, run,
                   call, balance_vars, stamp_vars>>

\* run k of fetchTripData goes on from the answer it awaited
Receive(k) ==
    /\ page.phase = "open"
    /\ k \in 1 .. Len(page.runs)
    /\ page.runs[k].pc \in {"tripAnswer", "membersAnswer", "expensesAnswer"}
    /\ LET pc == page.runs[k].pc
           answer == page.runs[k].answer
       IN  page' =
             IF answer.error # "none" THEN Caught(page, answer)
             ELSE CASE pc = "tripAnswer" ->
                        [page EXCEPT !.trip = answer.data @@ [null |-> FALSE],
                                     !.runs[k] = [pc |-> "members",
                                                  answer |-> NoAnswer]]
                    [] pc = "membersAnswer" ->
                        [page EXCEPT !.members = answer.data,
                                     !.runs[k] = [pc |-> "expenses",
                                                  answer |-> NoAnswer]]
                    [] pc = "expensesAnswer" ->
                        [page EXCEPT !.expenses = answer.data,
                                     !.loading = FALSE,
                                     !.runs[k] = Done]
    /\ UNCHANGED <<trips, trip_members, expenses, tripSeq, expenseSeq, run,
                   call, balance_vars, stamp_vars>>

\* handleAddExpense of the page: the form is rendered once loading is over
\* and trip is set; after a successful insert fetchTripData() is called and
\* not awaited
pageHandleAddExpense(expenseTitle, expenseAmount, selectedMemberId) ==
    /\ page.phase = "open"
    /\ ~page.loading
    /\ ~page.trip.null
    /\ handleAddExpense(page.user, page.tripId, expenseTitle, expenseAmount,
                        selectedMemberId)
    /\ page' = IF call'.toast = "Expense Added" THEN fetchTripData(page)
               ELSE page
    /\ UNCHANGED stamp_vars

\* a step of another session: the page is told nothing
Outside ==
    page' = IF page.phase = "open" /\ <<trips, trip_members, expenses>>' # ledger
            THEN [page EXCEPT !.outside = TRUE]
            ELSE page

PageTitleInputs == {<<"a">>}
PageMemberNamesInputs == {<< <<"x">> >>}
PageAmountInputs == {<<"0">>, <<"1">>}
PageMemberIds == {MemberIdOf(trip_id, 1) : trip_id \in TripIds}

(* --------------------------- specifications ---------------------------- *)
InitLedger ==
    /\ trips = {}
    /\ trip_members = {}
    /\ expenses = {}
    /\ tripSeq = 0
    /\ expenseSeq = 0
    /\ run = [u \in Users |-> Idle]
    /\ call = NoCall

Init ==
    /\ InitLedger
    /\ args = NoArgs
    /\ rendered = NotRendered
    /\ page = NoPage
    /\ clock = 0
    /\ updated_at = <<>>

\* the pages and the timestamps are left out of the two ledger specifications
elsewhere == <<page_vars, stamp_vars>>

\* the number of stored expenses is capped at cap
Within(cap) == call'.toast = "Expense Added" => expenseSeq < cap

\* every operation on the ledger
Next ==
    \/ \E u \in Users, title \in TitleInputs, memberNames \in MemberNamesInputs :
          handleSubmit(u, title, memberNames) /\ UNCHANGED elsewhere
    \/ \E u \in Users : handleSubmitTripRequestFails(u) /\ UNCHANGED elsewhere
    \/ \E u \in Users : handleSubmitMembers(u) /\ UNCHANGED elsewhere
    \/ \E u \in Users : handleSubmitMembersRequestFails(u) /\ UNCHANGED elsewhere
    \/ \E u \in Users, tripId \in TripIds, expenseTitle \in ExpenseTitleInputs,
          expenseAmount \in AmountInputs, selectedMemberId \in {0} \cup MemberIds :
          /\ handleAddExpense(u, tripId, expenseTitle, expenseAmount,
                              selectedMemberId)
          /\ Within(MaxExpenses)
          /\ UNCHANGED elsewhere
    \/ \E u \in Users, trip_id \in TripIds :
          DeleteTrip(u, trip_id) /\ UNCHANGED elsewhere

Spec == Init /\ [][Next]_vars

\* trip creation and deletion over the larger set of form values
NextCreate ==
    \/ \E u \in Users, title \in CreateTitleInputs,
          memberNames \in CreateMemberNamesInputs :
          handleSubmit(u, title, memberNames) /\ UNCHANGED elsewhere
    \/ \E u \in Users : handleSubmitTripRequestFails(u) /\ UNCHANGED elsewhere
    \/ \E u \in Users : handleSubmitMembers(u) /\ UNCHANGED elsewhere
    \/ \E u \in Users : handleSubmitMembersRequestFails(u) /\ UNCHANGED elsewhere
    \/ \E u \in Users, trip_id \in TripIds :
          DeleteTrip(u, trip_id) /\ UNCHANGED elsewhere

SpecCreate == Init /\ [][NextCreate]_vars

\* the balance computation over bounded trips, member lists and expense lists
InitBal ==
    /\ InitLedger
    /\ args \in [trip : BalTrips, members : BalMemberLists,
                 expenses : BalExpenseLists]
    /\ rendered = NotRendered
    /\ page = NoPage
    /\ clock = 0
    /\ updated_at = <<>>

NextBal == Render

SpecBal == InitBal /\ [][NextBal]_vars

\* inserts, updates and the passing of time
NextStamp ==
    \/ \E u \in Users, title \in StampTitleInputs,
          memberNames \in StampMemberNamesInputs :
          /\ handleSubmit(u, title, memberNames)
          /\ InsertDefaults
          /\ UNCHANGED <<clock, page_vars>>
    \/ \E u \in Users :
          /\ handleSubmitMembers(u)
          /\ InsertDefaults
          /\ UNCHANGED <<clock, page_vars>>
    \/ \E u \in Users, tripId \in TripIds, selectedMemberId \in MemberIds :
          /\ handleAddExpense(u, tripId, <<"h">>, <<"1">>, selectedMemberId)
          /\ Within(MaxExpenses)
          /\ InsertDefaults
          /\ UNCHANGED <<clock, page_vars>>
    \/ \E u \in Users, id \in TripIds, set \in TripSets :
          UpdateTrips(u, id, set) /\ UNCHANGED page_vars
    \/ \E u \in Users, id \in 1 .. MaxExpenses, set \in ExpenseSets :
          UpdateExpenses(u, id, set) /\ UNCHANGED page_vars
    \/ Tick /\ UNCHANGED page_vars

SpecStamp == Init /\ [][NextStamp]_vars

\* one TripDetail page next to the sessions that create trips and add expenses
NextPage ==
    \/ \E u \in Users, title \in PageTitleInputs,
          memberNames \in PageMemberNamesInputs :
          handleSubmit(u, title, memberNames) /\ Outside /\ UNCHANGED stamp_vars
    \/ \E u \in Users :
          handleSubmitMembers(u) /\ Outside /\ UNCHANGED stamp_vars
    \/ \E u \in Users, tripId \in TripIds, expenseAmount \in PageAmountInputs,
          selectedMemberId \in PageMemberIds :
          /\ handleAddExpense(u, tripId, <<"h">>, expenseAmount, selectedMemberId)
          /\ Within(MaxPageExpenses)
          /\ Outside
          /\ UNCHANGED stamp_vars
    \/ \E u \in Users, tripId \in TripIds : OpenPage(u, tripId)
    \/ \E k \in 1 .. (MaxPageExpenses + 1) : Serve(k)
    \/ \E k \in 1 .. (MaxPageExpenses + 1) : RequestFails(k)
    \/ \E k \in 1 .. (MaxPageExpenses + 1) : Receive(k)
    \/ \E expenseAmount \in PageAmountInputs,
          selectedMemberId \in {0} \cup PageMemberIds :
          /\ pageHandleAddExpense(<<"h">>, expenseAmount, selectedMemberId)
          /\ Within(MaxPageExpenses)

SpecPage == Init /\ [][NextPage]_vars

(* ------------------------------- claims -------------------------------- *)
MembersOf(trip_id) == {m \in trip_members : m.trip_id = trip_id}
OnlySpaces(s) == \A i \in 1 .. Len(s) : s[i] = " "
AllBlank(names) == \A i \in 1 .. Len(names) : OnlySpaces(names[i])
NonBlankEntries(names) == SelectSeq(names, LAMBDA n : ~OnlySpaces(n))
\* name is entry without the spaces at its two ends
IsStripOf(name, entry) ==
    \E a, b \in 1 .. Len(entry) :
        /\ a <= b
        /\ name = SubSeq(entry, a, b)
        /\ entry[a] # " " /\ entry[b] # " "
        /\ \A k \in 1 .. Len(entry) : (k < a \/ k > b) => entry[k] = " "

\* C1: in every reachable state every Trip row's member_count equals the
\* number of Member rows of that Trip.
C1_MemberCountMatches ==
    \A t \in trips : t.member_count = Cardinality(MembersOf(t.id))

\* C2: CreateTrip is atomic: a run that ended in failure, also one whose
\* Member insert failed after its Trip insert succeeded, leaves no row of its
\* Trip behind.
C2_FailedCreateLeavesNothing ==
    (call.op = "handleSubmitMembers" /\ call.toast = "Error Creating Trip")
        => /\ ~\E t \in trips : t.id = call.trip_id
           /\ MembersOf(call.trip_id) = {}

\* C3: every stored Expense's paid_by_member_id references a Member whose
\* trip_id is the Expense's trip_id (an AddExpense with a payer outside the
\* target Trip stores nothing).
C3_PayerBelongsToTrip ==
    \A e \in expenses :
        \E m \in trip_members :
            m.id = e.paid_by_member_id /\ m.trip_id = e.trip_id

\* the owners of the trip with this id among the rows of tripRows
TripOwners(tripRows, trip_id) ==
    {t.user_id : t \in {x \in tripRows : x.id = trip_id}}

C4_ReadsOwnRows ==
    \A A \in Users, trip_id \in TripIds :
        /\ \A t \in SelectTrips(A) : t.user_id = A
        /\ \A m \in SelectMembers(A, trip_id) : TripOwners(trips, m.trip_id) = {A}
        /\ \A e \in SelectExpenses(A, trip_id) :
              /\ TripOwners(trips, e.trip_id) = {A}
              /\ \A m \in PayerEmbed(A, e) : TripOwners(trips, m.trip_id) = {A}

C4_WritesOwnRows ==
    LET A == call'.user
    IN  /\ \A t \in (trips \ trips') \cup (trips' \ trips) : t.user_id = A
        /\ \A m \in trip_members \ trip_members' :
              TripOwners(trips, m.trip_id) = {A}
        /\ \A m \in trip_members' \ trip_members :
              TripOwners(trips', m.trip_id) = {A}
        /\ \A e \in expenses \ expenses' : TripOwners(trips, e.trip_id) = {A}
        /\ \A e \in expenses' \ expenses : TripOwners(trips', e.trip_id) = {A}

\* C4: an Owner never reads, and no step requested by an Owner creates,
\* changes or removes (cascades included), a Trip, Member or Expense whose
\* owning Trip belongs to another Owner.
C4_OwnerIsolation == [](C4_ReadsOwnRows) /\ [][C4_WritesOwnRows]_vars

\* C5: in every reachable state every stored Expense row has amount > 0
\* (the stored amount, in cents), since AddExpense rejects amount <= 0.
C5_StoredAmountPositive == \A e \in expenses : e.amount > 0

\* C6: a CreateTrip whose title is empty or whitespace-only, or whose
\* member names are all empty after trimming, is rejected with a validation
\* error and inserts neither a Trip row nor a Member row.
C6_InvalidCreateRejected ==
    [][ (/\ call'.op = "handleSubmit"
         /\ (OnlySpaces(call'.title) \/ AllBlank(call'.memberNames)))
        => /\ UNCHANGED <<trips, trip_members, expenses, run>>
           /\ call'.toast = (IF OnlySpaces(call'.title)
                             THEN "Trip Title Required"
                             ELSE "Members Required") ]_vars

C6_Witness ==
    /\ call.op = "handleSubmit"
    /\ call.title = <<"a">>
    /\ call.memberNames = << <<>>, <<" ", " ">> >>
    /\ call.toast = "Members Required"
    /\ trips = {}

\* C7 as stated: a successful CreateTrip leaves a Trip row with
\* member_count = len(member_names) and one Member row per entry of
\* member_names.
C7_CountIsLenOfMemberNames ==
    [][ (call'.op = "handleSubmitMembers" /\ call'.toast = "Trip Created!")
        => /\ \E t \in trips' : /\ t.id = call'.trip_id
                                /\ t.member_count = Len(call'.memberNames)
           /\ Cardinality({m \in trip_members' : m.trip_id = call'.trip_id})
                 = Len(call'.memberNames) ]_vars

C7_TripInserted ==
    (call'.op = "handleSubmit" /\ call'.toast = "")
        => /\ \E t \in trips' \ trips :
                 /\ trips' = trips \cup {t}
                 /\ t.user_id = call'.user
                 /\ IsStripOf(t.title, call'.title)
                 /\ t.member_count = Len(NonBlankEntries(call'.memberNames))
                 /\ \A old \in trips : old.id # t.id
           /\ UNCHANGED <<trip_members, expenses>>

C7_MembersInserted ==
    (call'.op = "handleSubmitMembers" /\ call'.toast = "Trip Created!")
        => LET new == trip_members' \ trip_members
               nb  == NonBlankEntries(call'.memberNames)
           IN  /\ trip_members \subseteq trip_members'
               /\ new = {m \in trip_members' : m.trip_id = call'.trip_id}
               /\ \E f \in [1 .. Len(nb) -> new] :
                     /\ \A m \in new : \E i \in 1 .. Len(nb) : f[i] = m
                     /\ \A i, j \in 1 .. Len(nb) : f[i] = f[j] => i = j
                     /\ \A i \in 1 .. Len(nb) : IsStripOf(f[i].name, nb[i])
               /\ \E t \in trips' :
                     t.id = call'.trip_id /\ t.member_count = Len(nb)
               /\ UNCHANGED <<trips, expenses>>

\* C7 (amended): a successful CreateTrip creates exactly one Trip row, with
\* member_count = the number of entries of member_names that are not blank
\* after trimming, and exactly one Member row, named by the trimmed entry,
\* per such entry (duplicates kept, blank entries dropped).
C7_OneMemberPerNonBlankName ==
    [][C7_TripInserted /\ C7_MembersInserted]_vars

C7_Witness ==
    /\ call.op = "handleSubmitMembers"
    /\ call.toast = "Trip Created!"
    /\ call.memberNames = << <<>>, <<"x", " ">> >>
    /\ \E t \in trips : t.id = call.trip_id /\ t.member_count = 1
    /\ Cardinality(MembersOf(call.trip_id)) = 1

C8_NoDuplicateTitle ==
    \A t1, t2 \in trips :
        (t1.user_id = t2.user_id /\ t1.title = t2.title) => t1 = t2

C8_ConflictOrAccepted ==
    (/\ call'.op = "handleSubmit"
     /\ ~OnlySpaces(call'.title)
     /\ ~AllBlank(call'.memberNames))
        => IF \E t \in trips :
                 t.user_id = call'.user /\ IsStripOf(t.title, call'.title)
           THEN /\ UNCHANGED <<trips, trip_members, expenses, run>>
                /\ call'.toast = "Error Creating Trip"
                /\ call'.message = "unique"
           ELSE /\ call'.toast = ""
                /\ \E t \in trips' \ trips :
                      t.user_id = call'.user /\ IsStripOf(t.title, call'.title)

\* C8: no Owner ever has two Trips with the same title: a CreateTrip whose
\* (owner, trimmed title) already exists fails with the conflict error and
\* leaves the ledger unchanged; the same title under another Owner is
\* accepted.
C8_UniqueOwnerTitle ==
    [](C8_NoDuplicateTitle) /\ [][C8_ConflictOrAccepted]_vars

C8_Witness ==
    /\ call.op = "handleSubmit"
    /\ call.message = "unique"
    /\ call.title = <<" ", "a">>
    /\ \E t1, t2 \in trips :
          t1.user_id # t2.user_id /\ t1.title = <<"a">> /\ t2.title = <<"a">>

RECURSIVE SumOfAmountsAt(_, _)
\* the integer sum of the amounts of list at the positions in S
SumOfAmountsAt(list, S) ==
    IF S = {} THEN 0
    ELSE LET k == CHOOSE k \in S : TRUE
         IN  list[k].amount + SumOfAmountsAt(list, S \ {k})

\* C9: calculateBalances returns one entry per input member in the input
\* order; totalPaid is the sum of the amounts of the expenses the member
\* paid, shouldPay is the one value totalExpense / member_count, and
\* balance = totalPaid - shouldPay.
C9_BalancesPerMember ==
    rendered.done =>
        LET b     == rendered.balances
            list  == args.expenses
            count == args.trip.member_count
            total == SumOfAmountsAt(list, 1 .. Len(list))
        IN  /\ Len(b) = Len(args.members)
            /\ \A i \in 1 .. Len(b) :
                  /\ b[i].member = args.members[i]
                  /\ b[i].totalPaid.kind = "finite"
                  /\ b[i].totalPaid.d = 1
                  /\ b[i].totalPaid.n =
                        SumOfAmountsAt(list,
                            {k \in 1 .. Len(list) :
                                list[k].paid_by_member_id = args.members[i].id})
                  /\ b[i].shouldPay = b[1].shouldPay
                  /\ count # 0 =>
                        /\ b[i].shouldPay.kind = "finite"
                        /\ b[i].shouldPay.d > 0
                        /\ b[i].shouldPay.n * count = total * b[i].shouldPay.d
                        /\ b[i].balance.kind = "finite"
                        /\ b[i].balance.d > 0
                        /\ b[i].balance.n * b[i].shouldPay.d
                              + b[i].shouldPay.n * b[i].balance.d
                           = b[i].totalPaid.n * b[i].balance.d * b[i].shouldPay.d

\* 2 members, Alice paid 100.00 and Bob paid 40.00: shouldPay 70.00,
\* balances +30.00 and -30.00
C9_Witness ==
    /\ rendered.done
    /\ args.trip.member_count = 2
    /\ args.members = << [id |-> 1, name |-> "Alice"], [id |-> 2, name |-> "Bob"] >>
    /\ args.expenses = << [amount |-> 4000, paid_by_member_id |-> 2],
                          [amount |-> 10000, paid_by_member_id |-> 1] >>
    /\ rendered.balances[1].totalPaid = Num(10000)
    /\ rendered.balances[1].shouldPay = Num(7000)
    /\ rendered.balances[1].balance = Num(3000)
    /\ rendered.balances[2].totalPaid = Num(4000)
    /\ rendered.balances[2].balance = Num(0 - 3000)

\* C10: whenever trip.member_count is 0, shouldPay is 0 in every entry
\* calculateBalances returns, and equals the per-person value of the trip
\* summary and of the dashboard for the same trip and expenses.
C10_DivisionGuarded ==
    (rendered.done /\ args.trip.member_count = 0)
        => \A i \in 1 .. Len(rendered.balances) :
              /\ rendered.balances[i].shouldPay = Num(0)
              /\ rendered.balances[i].shouldPay = rendered.perHeadExpense
              /\ rendered.balances[i].shouldPay = rendered.per_head_expense

\* C12: for a Trip with a positive member_count and no Expenses,
\* calculateBalances returns totalPaid = 0, shouldPay = 0 and balance = 0 for
\* every member.
C12_NoExpensesAllZero ==
    (rendered.done /\ args.trip.member_count > 0 /\ args.expenses = <<>>)
        => \A i \in 1 .. Len(rendered.balances) :
              /\ rendered.balances[i].totalPaid = Num(0)
              /\ rendered.balances[i].shouldPay = Num(0)
              /\ rendered.balances[i].balance = Num(0)

C12_Witness ==
    /\ rendered.done
    /\ args.trip.member_count = 3
    /\ args.expenses = <<>>
    /\ Len(args.members) = 2
    /\ Len(rendered.balances) = 2
    /\ rendered.balances[2].balance = Num(0)

C14_NoOrphans ==
    /\ \A m \in trip_members : \E t \in trips : t.id = m.trip_id
    /\ \A e \in expenses :
          /\ \E t \in trips : t.id = e.trip_id
          /\ \E m \in trip_members : m.id = e.paid_by_member_id

C14_DeleteTakesRowsAlong ==
    \A t \in trips :
        (~\E n \in trips' : n.id = t.id)
            => /\ ~\E m \in trip_members' : m.trip_id = t.id
               /\ ~\E e \in expenses' : e.trip_id = t.id

\* C14: the step that deletes a Trip removes every Member and Expense of
\* that Trip, and in every reachable state no Member or Expense refers to a
\* missing Trip and no Expense to a missing Member.
C14_CascadeNoOrphans == [](C14_NoOrphans) /\ [][C14_DeleteTakesRowsAlong]_vars

\* the only trip ever created is deleted with its member and its expense
C14_Witness ==
    /\ call.op = "DeleteTrip"
    /\ tripSeq = 1
    /\ expenseSeq = 1
    /\ trips = {}
    /\ trip_members = {}
    /\ expenses = {}

\* C15: a Member row and an Expense row are never modified once created, and
\* each is removed only with its own Trip: after every step, every Member
\* and Expense whose Trip still exists is still there, unchanged.
C15_RowsPermanent ==
    [][ /\ \A m \in trip_members :
              (\E t \in trips' : t.id = m.trip_id) => m \in trip_members'
        /\ \A e \in expenses :
              (\E t \in trips' : t.id = e.trip_id) => e \in expenses' ]_vars

\* the rows an UPDATE request was let to write: the row it names, when the
\* requester owns the row's Trip
C16_Updated ==
    IF call'.op = "UpdateTrips" /\ call'.message = "none"
    THEN {TripKey(t.id) : t \in {x \in trips : x.id = call'.id
                                                /\ x.user_id = call'.user}}
    ELSE IF call'.op = "UpdateExpenses"
    THEN {ExpenseKey(e.id) :
            e \in {x \in expenses : x.id = call'.id
                       /\ TripOwners(trips, x.trip_id) = {call'.user}}}
    ELSE {}

\* C16: every update of a Trip or Expense row sets the row's updated_at to
\* the time of the update, whatever the update writes (its own updated_at
\* included); rows that are not updated keep their updated_at.
C16_UpdateStamps ==
    [][ \A k \in DOMAIN updated_at \cap DOMAIN updated_at' :
            IF k \in C16_Updated THEN updated_at'[k] = clock
            ELSE updated_at'[k] = updated_at[k] ]_vars

\* an update that supplies updated_at = 0 at a later time
C16_Witness ==
    /\ call.op = "UpdateExpenses"
    /\ call.set = [amount |-> 2004, updated_at |-> 0]
    /\ clock = 1
    /\ updated_at[ExpenseKey(call.id)] = 1
    /\ \E e \in expenses : e.id = call.id /\ e.amount = 200
    /\ \E t \in trips : updated_at[TripKey(t.id)] = 0

(* claims about the TripDetail page *)
Shown == page.phase = "open" /\ ~page.loading /\ ~page.trip.null
StoredTrip(trip_id) == {t \in trips : t.id = trip_id}
StoredExpenses(trip_id) == {e \in expenses : e.trip_id = trip_id}
ListSet(list) == {list[i] : i \in 1 .. Len(list)}
ListIds(list) == {list[i].id : i \in 1 .. Len(list)}
NotOwn(u, trip_id) == ~\E t \in trips : t.id = trip_id /\ t.user_id = u

RECURSIVE SumOfBalances(_)
SumOfBalances(balances) ==
    IF balances = <<>> THEN Num(0)
    ELSE JsAdd(SumOfBalances(Tail(balances)), Head(balances).balance)

\* k * x for a finite x
Times(k, x) == Ratio(k * x.n, x.d)

\* C11: for every view the page shows, the balances calculateBalances
\* returns sum to totalExpense - member_count * shouldPay, which is 0 for
\* the exact per-head value: the members' balances net to zero.
C11_BalancesNetToZero ==
    Shown =>
        LET balances == calculateBalances(page.trip, page.members, page.expenses)
            totalExpense == SumAmounts(page.expenses)
            shouldPay == JsDiv(totalExpense, Num(page.trip.member_count))
        IN  /\ SumOfBalances(balances)
                  = JsSub(totalExpense, Times(page.trip.member_count, shouldPay))
            /\ SumOfBalances(balances) = Num(0)

C17_NotFound == [error |-> "PGRST116", data |-> <<>>]

C17_SameAnswer ==
    \A u \in Users, trip_id \in TripIds :
        NotOwn(u, trip_id) => TripAnswer(u, trip_id) = C17_NotFound

C17_SameOutcome ==
    /\ \A k \in 1 .. Len(page.runs) :
          (/\ page.runs[k].pc = "trip"
           /\ page'.phase = "open"
           /\ page'.runs[k].pc = "tripAnswer"
           /\ page'.runs[k].answer.error # "request failed"
           /\ NotOwn(page.user, page.tripId))
              => page'.runs[k].answer = C17_NotFound
    /\ \A k \in 1 .. Len(page.runs) :
          (/\ page.runs[k].pc = "tripAnswer"
           /\ page.runs[k].answer = C17_NotFound
           /\ (page'.phase = "closed" \/ page'.runs[k] # page.runs[k]))
              => /\ page'.phase = "closed"
                 /\ page'.toast = "Error"
                 /\ page'.message = "PGRST116"
                 /\ page'.trip = page.trip
                 /\ page'.members = page.members
                 /\ page'.expenses = page.expenses
                 /\ (k = 1 => /\ page'.trip = NullTrip
                              /\ page'.members = <<>>
                              /\ page'.expenses = <<>>)

\* C17: loading a trip by an id that does not exist and by an id of another
\* Owner's trip gives the requester the same answer and the same outcome: the
\* error path is taken and no trip, member or expense data is set.
C17_NotFoundIndistinguishable ==
    /\ [](C17_SameAnswer)
    /\ [][page.phase = "open" => C17_SameOutcome]_vars

\* the page was closed on another Owner's trip while the other id is missing
C17_Witness ==
    /\ page.phase = "closed"
    /\ page.message = "PGRST116"
    /\ ~page.outside
    /\ page.trip = NullTrip
    /\ \E t \in trips : t.id = page.tripId /\ t.user_id # page.user
    /\ \E trip_id \in TripIds :
          /\ ~\E t \in trips : t.id = trip_id
          /\ TripAnswer(page.user, trip_id) = TripAnswer(page.user, page.tripId)

C18_Frame ==
    call'.op = "handleAddExpense" =>
        IF expenseSeq' # expenseSeq
        THEN /\ call'.toast = "Expense Added"
             /\ expenseSeq' = expenseSeq + 1
             /\ \E e \in expenses' \ expenses :
                   /\ expenses' = expenses \cup {e}
                   /\ \A old \in expenses : old.id # e.id
             /\ UNCHANGED <<trips, trip_members>>
        ELSE /\ UNCHANGED <<trips, trip_members, expenses>>
             /\ call' # call => call'.toast # "Expense Added"

C18_NoneLostOrDuplicated ==
    /\ Cardinality(expenses) = expenseSeq
    /\ \A e1, e2 \in expenses : e1.id = e2.id => e1 = e2

\* C18: a successful AddExpense inserts exactly one Expense row and leaves
\* every Trip, Member and earlier Expense row as it was; however the calls
\* on one Trip interleave, each successful call adds exactly one row and none
\* is lost or duplicated; a rejected AddExpense leaves the ledger unchanged.
C18_AddExpenseInsertsOneRow ==
    [](C18_NoneLostOrDuplicated) /\ [][C18_Frame]_vars

\* two expenses on the page's trip, one added by the page and one by another
\* session while a refresh of the page was under way
C18_Witness ==
    /\ page.phase = "open"
    /\ page.outside
    /\ Len(page.runs) = 2
    /\ expenseSeq = 2
    /\ Cardinality(StoredExpenses(page.tripId)) = 2

C19_EachReadAtItsOwnInstant ==
    \A k \in 1 .. Len(page.runs) :
        (/\ page'.phase = "open"
         /\ page.runs[k].pc \in {"trip", "members", "expenses"}
         /\ page'.runs[k].pc = page.runs[k].pc \o "Answer"
         /\ page'.runs[k].answer.error = "none")
            => LET data == page'.runs[k].answer.data
                   own  == ~NotOwn(page.user, page.tripId)
               IN  CASE page.runs[k].pc = "trip" ->
                          /\ own
                          /\ StoredTrip(page.tripId) = {data}
                     [] page.runs[k].pc = "members" ->
                          /\ ListSet(data) = IF own THEN MembersOf(page.tripId)
                                             ELSE {}
                          /\ Len(data) = Cardinality(ListSet(data))
                     [] page.runs[k].pc = "expenses" ->
                          /\ ListIds(data) =
                                IF own
                                THEN {e.id : e \in StoredExpenses(page.tripId)}
                                ELSE {}
                          /\ \A i \in 1 .. Len(data) :
                                \E e \in expenses :
                                    /\ e.id = data[i].id
                                    /\ e.amount = data[i].amount
                                    /\ e.paid_by_member_id
                                          = data[i].paid_by_member_id
                          /\ Len(data) = Cardinality(ListIds(data))

\* C19: fetchTripData makes three separate reads (Trip, Members, Expenses),
\* each answered from the ledger as it is at that read, with no snapshot
\* shared between them; what is committed between the reads can leave a view
\* that no single ledger state had.
C19_SeparateReads == [][page.phase = "open" => C19_EachReadAtItsOwnInstant]_vars

\* a completed fetch shows no member, yet an expense paid by a member of this
\* very trip: the members read came before the Members were inserted, the
\* AddExpense committed before the expenses read.  Rows are never changed, so
\* every ledger state that held the expense held its payer too.
C19_Witness ==
    /\ page.phase = "open"
    /\ Len(page.runs) = 1
    /\ page.runs[1].pc = "done"
    /\ page.members = <<>>
    /\ \E i \in 1 .. Len(page.expenses) :
          \E m \in MembersOf(page.tripId) :
              m.id = page.expenses[i].paid_by_member_id

C20_Quiet ==
    /\ page.phase = "open"
    /\ ~page.outside
    /\ \A k \in 1 .. Len(page.runs) : page.runs[k].pc = "done"

C20_ShowsStoredRows ==
    C20_Quiet =>
        /\ StoredTrip(page.tripId) = {[c \in DOMAIN page.trip \ {"null"} |->
                                          page.trip[c]]}
        /\ ListSet(page.members) = MembersOf(page.tripId)
        /\ ListIds(page.expenses) = {e.id : e \in StoredExpenses(page.tripId)}

C20_NoOverwrite ==
    \A k \in 1 .. Len(page.runs) :
        (/\ page'.phase = "open"
         /\ page.runs[k].pc = "expensesAnswer"
         /\ page'.runs[k].pc = "done")
            => ~\E j \in 1 .. Len(page.runs) : j > k /\ page.runs[j].pc = "done"

\* C20: when the fetchTripData runs of one page overlap, then once all have
\* completed and no other session has written, the page shows the stored
\* rows of the trip: the answer of an earlier started run never overwrites
\* the data of a later started one.
C20_LastFetchWins ==
    /\ [](C20_ShowsStoredRows)
    /\ [][page.phase = "open" => C20_NoOverwrite]_vars

====
